---- MODULE Spec2Model ----
(***************************************************************************)
(* M17 demodulator synchronisation state machine (M17Demodulator::frame,   *)
(* demod, stop, passall, locked) together with the fixed-capacity IoFrame  *)
(* pool reached through hdlc::acquire / hdlc::release.                      *)
(*                                                                         *)
(* Floating point values are carried as records [nan, v]: v is the value   *)
(* in fixed point (dt in units of 1e-6, gain and phase estimates in units  *)
(* of 1e-3, so that phase * gain is again in units of 1e-6), nan marks a   *)
(* NaN, on which every comparison is false as in IEEE arithmetic.          *)
(***************************************************************************)
EXTENDS Integers, Sequences, FiniteSets, TLC

\* ---------------------------------------------------------------- bounds
\* Capacity of the IoFrame pool (fixed at build time in HdlcFrame.hpp).
PoolSize == 2
\* Calls of the framer that complete one frame (184 in the firmware: 368
\* soft bits, two per 4-FSK symbol).
FrameSyms == 2
\* Calls of frame() per periodic report (192 in the firmware).
InfoPeriod == 2

\* ------------------------------------------------------ program constants
NULL == 0
SyncLossLimit == 8
ideal_dt == 100000
DtMin == 95000
DtMax == 105000
GainInit == 5
GainLocked == 2
GainUnlocked == 10

Frames == 1..PoolSize
\* Soft values the framer is fed (one per symbol step).
Softs == {1}
DemodStates == {"UNLOCKED", "SYNC", "FR_SYNC", "FRAMING"}

VARIABLES
    demodState,   \* DemodState demodState
    locked_,      \* bool locked_
    passall_,     \* bool passall_
    sync_count,   \* int sync_count
    gain,         \* float gain (units of 1e-3)
    dt,           \* float dt (record, units of 1e-6)
    buffer,       \* std::array<int8_t, 368> buffer
    framer,       \* M17Framer: the soft values accumulated so far
    count,        \* static size_t count of frame(), modulo InfoPeriod
    free,         \* IoFramePool: the free list, head first
    fatal,        \* CxxErrorHandler has been invoked
    result,       \* the caller's output frame pointer (hdlc::IoFrame*&)
    held,         \* frames owned by callers outside the demodulator
    last,         \* the latest operation, its inputs and the calls it made
    pc,           \* where each execution context is inside a pool operation
    reg,          \* what each execution context has read so far
    irq           \* the context inside the pool's critical section, or "none"

vars == <<demodState, locked_, passall_, sync_count, gain, dt, buffer, framer,
          count, free, fatal, result, held, last, pc, reg, irq>>

\* The state of the pool operations in progress.
poolCtx == <<pc, reg, irq>>

demodVars == <<demodState, locked_, passall_, sync_count, gain, dt, buffer,
               framer, count>>

\* ------------------------------------------------------------ float model
F(v) == [nan |-> FALSE, v |-> v]
NaN == [nan |-> TRUE, v |-> 0]
\* a < b on floats: false when either side is NaN.
FLess(a, b) == ~a.nan /\ ~b.nan /\ a.v < b.v
FNeg(a) == IF a.nan THEN NaN ELSE F(0 - a.v)
\* a * g, g a finite gain in units of 1e-3.
FScale(a, g) == IF a.nan THEN NaN ELSE F(a.v * g)
FSub(a, b) == IF a.nan \/ b.nan THEN NaN ELSE F(a.v - b.v)
\* std::max(a, b) is (a < b) ? b : a; std::min(a, b) is (b < a) ? b : a.
StdMax(a, b) == IF FLess(a, b) THEN b ELSE a
StdMin(a, b) == IF FLess(b, a) THEN b ELSE a

\* Phase-error estimates the phase estimator may return (units of 1e-3).
PhaseEstimates == {NaN} \cup {F(v) : v \in {-3000, -700, 0, 700, 3000}}

\* --------------------------------------------------------- IoFrame pool
\* IoFramePool::acquire: take the head of the free list, or null when the
\* list is empty.
IoFramePool_acquire(fl) ==
    IF fl = <<>> THEN [frame |-> NULL, free |-> fl]
    ELSE [frame |-> Head(fl), free |-> Tail(fl)]

\* IoFramePool::release: put the frame back on the free list.
IoFramePool_release(fl, f) == <<f>> \o fl

acquire_nohandler(fl, ft) ==
    LET r == IoFramePool_acquire(fl)
    IN  [frame |-> r.frame, free |-> r.free, fatal |-> ft, handler |-> FALSE]

\* hdlc::acquire(): the pool's answer; a null answer invokes CxxErrorHandler
\* (handler: this call invoked it; fatal: it has been invoked).
acquire(fl, ft) ==
    LET r == IoFramePool_acquire(fl)
    IN  [frame |-> r.frame, free |-> r.free, fatal |-> ft \/ (r.frame = NULL),
         handler |-> (r.frame = NULL)]

release_dropped(fl, f) == fl
\* hdlc::release(frame): forwards to the pool.
release(fl, f) == IoFramePool_release(fl, f)

Outstanding == PoolSize - Len(free)

\* ------------------------------------------------- framer and decoder
\* M17Framer::operator(): accumulate one symbol's soft value; the call that
\* fills the frame returns its length and a pointer to it and starts over.
M17Framer_call(fr, soft) ==
    LET acc == Append(fr, soft)
    IN  IF Len(acc) = FrameSyms
        THEN [len |-> 2 * FrameSyms, tmp |-> acc, framer |-> <<>>]
        ELSE [len |-> 0, tmp |-> <<>>, framer |-> acc]

\* M17Framer::reset(): drop what was accumulated.
M17Framer_reset == <<>>

\* M17FrameDecoder::reset() has no effect this model observes beyond the call.
\* M17FrameDecoder::operator(): obtains its output frame from hdlc::acquire()
\* and stores it through the result reference.
M17FrameDecoder_call(fl, ft) == acquire(fl, ft)

\* buffer before the first frame is copied into it: the member has no
\* initialiser and the code never reads it before writing it; an object of
\* static storage holds zeros.
ZeroBuffer == [i \in 1..FrameSyms |-> 0]

Periodic_late(c) == (c + 1) % InfoPeriod = 0
\* (count++ % 192) == 0, on the counter before the increment.
Periodic(c) == c % InfoPeriod = 0

\* ------------------------------------------------------------- ghost
\* last: the operation, the state it began in, what the correlator, the
\* framer and the decoder answered in it, the frame it acquired or released,
\* and the calls it made on its collaborators, in order.
\* periodic: the step made the periodic report that closes frame().
NoOp(name) ==
    [op |-> name, state0 |-> demodState, match |-> FALSE, len |-> 0,
     valid |-> FALSE, got |-> NULL, enabled |-> FALSE, calls |-> <<>>,
     periodic |-> (name = "frame" /\ Periodic(count))]

\* ------------------------------------------------------ the state machine
SyncNext_resync(locked, match) ==
    IF ~locked THEN "UNLOCKED"
    ELSE IF match THEN "FR_SYNC"
    ELSE "SYNC"

\* case SYNC without its carrier test.
SyncNext_stuck(locked, match) ==
    IF locked /\ match THEN "FRAMING" ELSE "SYNC"

\* case DemodState::SYNC: the state the case leaves.
SyncNext(locked, match) ==
    IF ~locked THEN "UNLOCKED"
    ELSE IF match THEN "FRAMING"
    ELSE "SYNC"

SyncLost_early(cnt) == cnt >= SyncLossLimit
SyncLost_late(cnt) == cnt > SyncLossLimit + 1
\* ++sync_count > 8, on the incremented counter.
SyncLost(cnt) == cnt > SyncLossLimit

ReleaseInvalid_valid(valid, res, passall) == res # NULL /\ ~passall
ReleaseInvalid_nopass(valid, res, passall) == ~valid /\ res # NULL
ReleaseInvalid_never(valid, res, passall) == FALSE
\* if (!valid) { if (result && !passall_) ... }: the frame is released.
ReleaseInvalid(valid, res, passall) == ~valid /\ res # NULL /\ ~passall

\* The UNLOCKED case without its early break.
CaseUNLOCKED_nobreak(locked, match) ==
    /\ demodState = "UNLOCKED"
    /\ framer' = M17Framer_reset
    /\ demodState' = SyncNext(locked, match)
    /\ locked_' = (locked /\ locked_)
    /\ last' = [NoOp("frame") EXCEPT
                    !.match = locked /\ match,
                    !.calls = <<"dcd", "framer.reset", "decoder.reset">>
                              \o (IF locked THEN <<"sync1">> ELSE <<>>)]
    /\ UNCHANGED <<sync_count, buffer, free, fatal, result>>

\* The UNLOCKED case without the resets on its way into SYNC.
CaseUNLOCKED_noreset(locked, match) ==
    /\ demodState = "UNLOCKED"
    /\ IF ~locked
       THEN /\ locked_' = FALSE
            /\ UNCHANGED demodState
            /\ last' = [NoOp("frame") EXCEPT !.calls = <<"dcd">>]
       ELSE /\ demodState' = SyncNext(locked, match)
            /\ UNCHANGED locked_
            /\ last' = [NoOp("frame") EXCEPT
                            !.match = match, !.calls = <<"dcd", "sync1">>]
    /\ UNCHANGED <<framer, sync_count, buffer, free, fatal, result>>

\* The UNLOCKED case with a break in place of the fall-through.
CaseUNLOCKED_break(locked, match) ==
    /\ demodState = "UNLOCKED"
    /\ IF ~locked
       THEN /\ locked_' = FALSE
            /\ UNCHANGED <<demodState, framer>>
            /\ last' = [NoOp("frame") EXCEPT !.calls = <<"dcd">>]
       ELSE /\ framer' = M17Framer_reset
            /\ demodState' = "SYNC"
            /\ UNCHANGED locked_
            /\ last' = [NoOp("frame") EXCEPT
                            !.calls = <<"dcd", "framer.reset",
                                        "decoder.reset">>]
    /\ UNCHANGED <<sync_count, buffer, free, fatal, result>>

\* case DemodState::UNLOCKED, falling through into case SYNC.
CaseUNLOCKED(locked, match) ==
    /\ demodState = "UNLOCKED"
    /\ IF ~locked
       THEN /\ locked_' = FALSE
            /\ UNCHANGED <<demodState, framer>>
            /\ last' = [NoOp("frame") EXCEPT !.calls = <<"dcd">>]
       ELSE \* falls through into case SYNC with the carrier locked
            /\ framer' = M17Framer_reset
            /\ demodState' = SyncNext(locked, match)
            /\ UNCHANGED locked_
            /\ last' = [NoOp("frame") EXCEPT !.match = match,
                            !.calls = <<"dcd", "framer.reset",
                                        "decoder.reset", "sync1">>]
    /\ UNCHANGED <<sync_count, buffer, free, fatal, result>>

\* The SYNC case clearing the caller's output pointer.
CaseSYNC_clears(locked, match) ==
    /\ demodState = "SYNC"
    /\ demodState' = SyncNext(locked, match)
    /\ result' = NULL
    /\ last' = [NoOp("frame") EXCEPT !.match = locked /\ match,
                    !.calls = IF locked THEN <<"dcd", "sync1">>
                              ELSE <<"dcd">>]
    /\ UNCHANGED <<locked_, sync_count, buffer, framer, free, fatal>>

\* case DemodState::SYNC.
CaseSYNC(locked, match) ==
    /\ demodState = "SYNC"
    /\ demodState' = SyncNext(locked, match)
    /\ last' = [NoOp("frame") EXCEPT !.match = locked /\ match,
                    !.calls = IF locked THEN <<"dcd", "sync1">>
                              ELSE <<"dcd">>]
    /\ UNCHANGED <<locked_, sync_count, buffer, framer, free, fatal, result>>

\* case DemodState::FR_SYNC.
CaseFR_SYNC(locked, match) ==
    /\ demodState = "FR_SYNC"
    /\ IF ~locked
       THEN /\ demodState' = "UNLOCKED"
            /\ UNCHANGED <<locked_, sync_count>>
            /\ last' = [NoOp("frame") EXCEPT !.calls = <<"dcd", "INFO">>]
       ELSE IF match
       THEN /\ demodState' = "FRAMING"
            /\ UNCHANGED <<locked_, sync_count>>
            /\ last' = [NoOp("frame") EXCEPT !.match = TRUE, !.calls = <<"dcd", "sync4">>]
       ELSE /\ sync_count' = sync_count + 1
            /\ IF SyncLost(sync_count + 1)
               THEN demodState' = "UNLOCKED" /\ locked_' = FALSE
               ELSE UNCHANGED <<demodState, locked_>>
            /\ last' = [NoOp("frame") EXCEPT !.calls = <<"dcd", "sync4">>]
    /\ UNCHANGED <<buffer, framer, free, fatal, result>>

\* The FRAMING case without the reset of the sync-loss counter.
CaseFRAMING_keepcount(locked, soft, valid) ==
    /\ demodState = "FRAMING"
    /\ locked_' = TRUE
    /\ UNCHANGED sync_count
    /\ LET fr == M17Framer_call(framer, soft)
       IN  /\ framer' = fr.framer
           /\ IF fr.len = 0
              THEN /\ UNCHANGED <<demodState, buffer, free, fatal, result>>
                   /\ last' = [NoOp("frame") EXCEPT
                                   !.calls = <<"dcd", "framer">>]
              ELSE LET d == M17FrameDecoder_call(free, fatal)
                       rel == ReleaseInvalid(valid, d.frame, passall_)
                   IN  /\ demodState' = "FR_SYNC"
                       /\ buffer' = fr.tmp
                       /\ fatal' = d.fatal
                       /\ free' = IF rel THEN release(d.free, d.frame)
                                  ELSE d.free
                       /\ result' = IF rel THEN NULL ELSE d.frame
                       /\ last' = [NoOp("frame") EXCEPT !.len = fr.len,
                                       !.valid = valid, !.got = d.frame,
                                       !.calls = <<"dcd", "framer", "decoder">>
                                           \o (IF d.handler
                                               THEN <<"CxxErrorHandler">>
                                               ELSE <<>>)
                                           \o (IF rel THEN <<"release">>
                                               ELSE <<>>)]

\* case DemodState::FRAMING.
CaseFRAMING(locked, soft, valid) ==
    /\ demodState = "FRAMING"
    /\ locked_' = TRUE
    /\ LET fr == M17Framer_call(framer, soft)
       IN  /\ framer' = fr.framer
           /\ IF fr.len = 0
              THEN /\ UNCHANGED <<demodState, sync_count, buffer, free,
                                  fatal, result>>
                   /\ last' = [NoOp("frame") EXCEPT !.calls = <<"dcd", "framer">>]
              ELSE LET d == M17FrameDecoder_call(free, fatal)
                       rel == ReleaseInvalid(valid, d.frame, passall_)
                   IN  /\ sync_count' = 0
                       /\ demodState' = "FR_SYNC"
                       /\ buffer' = fr.tmp
                       /\ fatal' = d.fatal
                       /\ free' = IF rel THEN release(d.free, d.frame)
                                  ELSE d.free
                       /\ result' = IF rel THEN NULL ELSE d.frame
                       /\ last' = [NoOp("frame") EXCEPT !.len = fr.len, !.valid = valid,
                                       !.got = d.frame,
                                       !.calls = <<"dcd", "framer", "decoder">>
                                           \o (IF d.handler
                                               THEN <<"CxxErrorHandler">>
                                               ELSE <<>>)
                                           \o (IF rel THEN <<"release">>
                                               ELSE <<>>)]

\* M17Demodulator::frame: one symbol step.
frame(locked, match, soft, valid) ==
    /\ gain' = IF locked THEN GainLocked ELSE GainUnlocked
    /\ count' = (count + 1) % InfoPeriod
    /\ \/ CaseUNLOCKED(locked, match)
       \/ CaseSYNC(locked, match)
       \/ CaseFR_SYNC(locked, match)
       \/ CaseFRAMING(locked, soft, valid)
    /\ UNCHANGED <<passall_, dt, held>>

Frame == \E locked \in BOOLEAN, match \in BOOLEAN, soft \in Softs,
            valid \in BOOLEAN : frame(locked, match, soft, valid)

\* ----------------------------------------------------- timing recovery
Clamp_swapped(d) == StdMin(StdMax(d, F(DtMin)), F(DtMax))
\* dt = std::min(std::max(0.095f, dt), 0.105f)
Clamp(d) == StdMin(StdMax(F(DtMin), d), F(DtMax))

\* M17Demodulator::demod: the timing update. negative is f_samples[1] < 0.
demod(estimate, negative) ==
    LET phase_estimate == IF negative THEN FNeg(estimate) ELSE estimate
    IN  /\ dt' = Clamp(FSub(F(ideal_dt), FScale(phase_estimate, gain)))
        /\ last' = NoOp("demod")
        /\ UNCHANGED <<demodState, locked_, passall_, sync_count, gain,
                       buffer, framer, count, free, fatal, result, held>>

Demod == \E estimate \in PhaseEstimates, negative \in BOOLEAN :
            demod(estimate, negative)

\* ------------------------------------------------------ control surface
stop_noclear ==
    /\ UNCHANGED locked_
    /\ last' = NoOp("stop")
    /\ UNCHANGED <<demodState, passall_, sync_count, gain, dt, buffer, framer,
                   count, free, fatal, result, held>>

\* M17Demodulator::stop
stop ==
    /\ locked_' = FALSE
    /\ last' = NoOp("stop")
    /\ UNCHANGED <<demodState, passall_, sync_count, gain, dt, buffer, framer,
                   count, free, fatal, result, held>>

\* M17Demodulator::passall
passall(enabled) ==
    /\ passall_' = enabled
    /\ last' = [NoOp("passall") EXCEPT !.enabled = enabled]
    /\ UNCHANGED <<demodState, locked_, sync_count, gain, dt, buffer, framer,
                   count, free, fatal, result, held>>

Passall == \E enabled \in BOOLEAN : passall(enabled)

\* ------------------------------------------------------- pool callers
\* Another part of the firmware calls hdlc::acquire().
Acquire ==
    LET a == acquire(free, fatal)
    IN  /\ free' = a.free
        /\ fatal' = a.fatal
        /\ held' = IF a.frame = NULL THEN held ELSE held \cup {a.frame}
        /\ last' = [NoOp("acquire") EXCEPT !.got = a.frame,
                        !.calls = IF a.handler THEN <<"CxxErrorHandler">>
                                  ELSE <<>>]
        /\ UNCHANGED <<demodVars, result>>

\* The owner of a frame calls hdlc::release(frame).
Release ==
    \E f \in held :
        /\ free' = release(free, f)
        /\ held' = held \ {f}
        /\ last' = [NoOp("release") EXCEPT !.got = f]
        /\ UNCHANGED <<demodVars, fatal, result>>

\* The caller of frame() takes the frame its output pointer names and
\* starts the next block with a null pointer.
Collect ==
    /\ result # NULL
    /\ held' = held \cup {result}
    /\ result' = NULL
    /\ last' = NoOp("collect")
    /\ UNCHANGED <<demodVars, free, fatal>>

\* ------------------------------------------- pool operations, step by step
\* acquire runs in the demodulator callback and release in the task that
\* owns the frame; each is a sequence of reads and writes of the free list
\* inside a critical section (interrupts disabled), and the other context
\* can run between any two of them.
Contexts == {"callback", "task"}
NoReg == [frame |-> NULL, free |-> <<>>, fatal |-> FALSE, handler |-> FALSE]

CanEnter_nolock(c) == TRUE
\* The critical section is free.
CanEnter(c) == irq = "none"

PoolStep(c, from, to) ==
    /\ pc[c] = from
    /\ pc' = [pc EXCEPT ![c] = to]
    /\ UNCHANGED <<demodVars, result, last>>

\* The callback calls hdlc::acquire().
CbStart ==
    /\ PoolStep("callback", "idle", "enter")
    /\ UNCHANGED <<reg, irq, free, fatal, held>>

CbEnter ==
    /\ PoolStep("callback", "enter", "read")
    /\ CanEnter("callback")
    /\ irq' = "callback"
    /\ UNCHANGED <<reg, free, fatal, held>>

\* Reads the head of the free list and its successor.
CbRead ==
    /\ PoolStep("callback", "read", "write")
    /\ reg' = [reg EXCEPT !["callback"] = acquire(free, fatal)]
    /\ UNCHANGED <<irq, free, fatal, held>>

\* Unlinks the head it read, or reports exhaustion.
CbWrite ==
    /\ PoolStep("callback", "write", "exit")
    /\ free' = IF reg["callback"].frame = NULL THEN free
               ELSE reg["callback"].free
    /\ fatal' = (fatal \/ reg["callback"].handler)
    /\ UNCHANGED <<reg, irq, held>>

\* Leaves the critical section; the frame goes to its next owner.
CbExit ==
    /\ PoolStep("callback", "exit", "idle")
    /\ irq' = IF irq = "callback" THEN "none" ELSE irq
    /\ held' = IF reg["callback"].frame = NULL THEN held
               ELSE held \cup {reg["callback"].frame}
    /\ reg' = [reg EXCEPT !["callback"] = NoReg]
    /\ UNCHANGED <<free, fatal>>

\* The owner of frame f calls hdlc::release(f).
TStart ==
    /\ PoolStep("task", "idle", "enter")
    /\ \E f \in held :
          /\ held' = held \ {f}
          /\ reg' = [reg EXCEPT !["task"] = [NoReg EXCEPT !.frame = f]]
    /\ UNCHANGED <<irq, free, fatal>>

TEnter ==
    /\ PoolStep("task", "enter", "link")
    /\ CanEnter("task")
    /\ irq' = "task"
    /\ UNCHANGED <<reg, free, fatal, held>>

\* Links the frame in front of the head it reads.
TLink ==
    /\ PoolStep("task", "link", "write")
    /\ reg' = [reg EXCEPT !["task"].free = release(free, reg["task"].frame)]
    /\ UNCHANGED <<irq, free, fatal, held>>

\* Makes the frame the head of the free list.
TWrite ==
    /\ PoolStep("task", "write", "exit")
    /\ free' = reg["task"].free
    /\ UNCHANGED <<reg, irq, fatal, held>>

TExit ==
    /\ PoolStep("task", "exit", "idle")
    /\ irq' = IF irq = "task" THEN "none" ELSE irq
    /\ reg' = [reg EXCEPT !["task"] = NoReg]
    /\ UNCHANGED <<free, fatal, held>>

\* ---------------------------------------------------------------- spec
Init ==
    /\ demodState = "UNLOCKED"
    /\ locked_ = FALSE
    /\ passall_ = FALSE
    /\ sync_count = 0
    /\ gain = GainInit
    /\ dt = F(ideal_dt)
    /\ buffer = ZeroBuffer
    /\ framer = <<>>
    /\ count = 0
    /\ free = [i \in 1..PoolSize |-> i]
    /\ fatal = FALSE
    /\ result = NULL
    /\ held = {}
    /\ last = [op |-> "init", state0 |-> "UNLOCKED", match |-> FALSE,
               len |-> 0, valid |-> FALSE, got |-> NULL, enabled |-> FALSE,
               calls |-> <<>>, periodic |-> FALSE]
    /\ pc = [c \in Contexts |-> "idle"]
    /\ reg = [c \in Contexts |-> NoReg]
    /\ irq = "none"

\* Every operation as one step, each pool operation included.
Next ==
    /\ \/ Frame
       \/ stop
       \/ Passall
       \/ Acquire
       \/ Release
       \/ Collect
    /\ UNCHANGED poolCtx

Spec == Init /\ [][Next]_vars

\* The timing loop: demod() and the symbol steps that select its gain.
NextPLL ==
    /\ \/ Demod
       \/ Frame
    /\ UNCHANGED poolCtx

SpecPLL == Init /\ [][NextPLL]_vars

\* The pool under acquire in the callback and release in the task, the two
\* interleaved at every read and write.
NextPool ==
    \/ CbStart
    \/ CbEnter
    \/ CbRead
    \/ CbWrite
    \/ CbExit
    \/ TStart
    \/ TEnter
    \/ TLink
    \/ TWrite
    \/ TExit

SpecPool == Init /\ [][NextPool]_vars

TypeOK ==
    /\ demodState \in DemodStates
    /\ locked_ \in BOOLEAN /\ passall_ \in BOOLEAN
    /\ sync_count \in 0..(SyncLossLimit + 1)
    /\ gain \in {GainInit, GainLocked, GainUnlocked}
    /\ Len(framer) < FrameSyms
    /\ count \in 0..(InfoPeriod - 1)
    /\ Len(buffer) = FrameSyms
    /\ result \in Frames \cup {NULL}
    /\ held \subseteq Frames


\* ================================================================ claims
\* The carrier detector reported locked on the latest symbol: frame() keeps
\* its answer in the loop gain.
DcdLocked == gain = GainLocked
Elems(q) == {q[i] : i \in 1..Len(q)}
\* The latest operation was a symbol step that began in state st.
StepFrom(st) == last.op = "frame" /\ last.state0 = st
\* The latest operation was a FRAMING step on which the framer completed a
\* frame.
FrameDone == StepFrom("FRAMING") /\ last.len # 0
Released == \E i \in 1..Len(last.calls) : last.calls[i] = "release"
ReleaseCalls == Cardinality({i \in 1..Len(last.calls) : last.calls[i] = "release"})

\* ---- C1
PoolConsistent ==
    /\ Elems(free) \subseteq Frames
    /\ Cardinality(Elems(free)) = Len(free)
    /\ Elems(free) \cap held = {}
    /\ result \notin Elems(free)
    /\ result \notin held

C1_Step ==
    /\ (last'.op = "acquire" \/ (last'.op = "frame" /\ last'.len # 0)) =>
          ((last'.got # NULL) <=> (Outstanding < PoolSize))
    /\ (last'.op = "acquire" /\ last'.got = NULL) =>
          (free' = free /\ held' = held /\ result' = result /\ fatal')
    /\ (last'.op = "acquire" /\ last'.got # NULL) =>
          /\ Outstanding' = Outstanding + 1
          /\ last'.got \in held' \ Elems(free')
          /\ fatal' = fatal
    /\ (last'.op = "release") =>
          /\ Outstanding' = Outstanding - 1
          /\ last'.got \in Elems(free') \ held'

\* C1: with capacity PoolSize, acquire succeeds exactly when fewer than
\* PoolSize frames are outstanding; the acquire attempted with PoolSize frames
\* outstanding reports exhaustion and leaves the pool as it was; every release
\* lowers the outstanding count by one, so that exactly one more acquire
\* succeeds; the free list never holds a frame twice or a frame that is owned.
C1_PoolCapacity == []PoolConsistent /\ [][C1_Step]_vars

\* An acquire succeeds and fills the pool again after exhaustion was reported.
C1_Witness ==
    last.op = "acquire" /\ last.got # NULL /\ fatal /\ Outstanding = PoolSize

C2_Step ==
    /\ (last'.op = "frame" /\ demodState = "FRAMING") => locked_'
    /\ (last'.op = "frame" /\ demodState = "UNLOCKED" /\ ~DcdLocked') =>
          ~locked_'
    /\ (last'.op = "frame" /\ demodState = "FR_SYNC" /\ DcdLocked'
            /\ ~last'.match /\ demodState' = "UNLOCKED") => ~locked_'
    /\ (last'.op = "stop") => ~locked_'
    /\ (locked_' # locked_) =>
          \/ last'.op = "stop"
          \/ last'.op = "frame" /\ demodState = "FRAMING"
          \/ last'.op = "frame" /\ demodState = "UNLOCKED" /\ ~DcdLocked'
          \/ last'.op = "frame" /\ demodState = "FR_SYNC" /\ DcdLocked'
                /\ ~last'.match /\ demodState' = "UNLOCKED"

C3_Step ==
    (last'.op = "frame" /\ demodState = "UNLOCKED" /\ ~DcdLocked') =>
        /\ demodState' = "UNLOCKED"
        /\ ~locked_'
        /\ framer' = framer
        /\ last'.calls = <<"dcd">>

\* C3: a symbol step that begins in UNLOCKED with the carrier reported
\* unlocked ends in UNLOCKED with locked() false and calls neither the framer
\* nor the decoder (no reset, no feed); by induction the state stays UNLOCKED
\* for as long as the carrier is never reported locked.
C3_StaysUnlocked == [][C3_Step]_vars

C3_Witness ==
    StepFrom("UNLOCKED") /\ demodState = "UNLOCKED" /\ gain = GainUnlocked
        /\ last.calls = <<"dcd">>

\* ---- C4
C4_Step ==
    (last'.op = "frame" /\ demodState \in {"UNLOCKED", "SYNC"} /\ DcdLocked') =>
        /\ demodState' = IF last'.match THEN "FRAMING" ELSE "SYNC"
        /\ sync_count' = sync_count

\* C4: with the carrier reported locked, a step that begins in UNLOCKED or
\* SYNC ends in FRAMING when sync1 matches on it and in SYNC otherwise; no
\* other state is entered and no counter runs.
C4_Acquisition == [][C4_Step]_vars

C4_Witness ==
    StepFrom("SYNC") /\ last.match /\ demodState = "FRAMING" /\ DcdLocked

\* ---- C5
\* The latest operation was a FR_SYNC step with the carrier locked and no
\* match of sync4.
Unmatched ==
    StepFrom("FR_SYNC") /\ last.calls = <<"dcd", "sync4">> /\ ~last.match

\* C5 as stated: at the end of the 8th consecutive unmatched step the state is
\* UNLOCKED.
C5_Original == (Unmatched /\ sync_count = SyncLossLimit) => demodState = "UNLOCKED"

C5_Step ==
    /\ (last'.op = "frame" /\ demodState = "FR_SYNC" /\ DcdLocked'
            /\ ~last'.match) =>
          /\ sync_count' = sync_count + 1
          /\ demodState' = IF sync_count' = SyncLossLimit + 1 THEN "UNLOCKED"
                           ELSE "FR_SYNC"
    /\ (demodState # "FR_SYNC" /\ demodState' = "FR_SYNC") => sync_count' = 0

\* C5 (amended): the counter is 0 on entry to FR_SYNC and grows by one on
\* every unmatched step with the carrier locked; the state is still FR_SYNC at
\* the end of the 8th consecutive unmatched step and is UNLOCKED at the end of
\* the 9th.
C5_SyncLoss ==
    /\ [](demodState = "FR_SYNC" => sync_count <= SyncLossLimit)
    /\ [][C5_Step]_vars

C5_Witness ==
    Unmatched /\ demodState = "UNLOCKED" /\ sync_count = SyncLossLimit + 1

\* ---- C6
C6_Step ==
    (last'.op = "frame" /\ demodState = "FRAMING" /\ last'.len # 0
        /\ ~last'.valid /\ ~passall_) =>
        /\ result' = NULL
        /\ Outstanding' = Outstanding
        /\ free' = free
        /\ held' = held
        /\ (last'.got # NULL) =>
              /\ Cardinality({i \in 1..Len(last'.calls) :
                                 last'.calls[i] = "release"}) = 1
              /\ last'.got \in Elems(free')

\* C6: a completed frame the decoder reports invalid, with pass-all disabled,
\* is released exactly once inside frame(), the output pointer is null after
\* the step, and the pool is as it was before the decoder acquired the frame.
C6_InvalidReleased == [][C6_Step]_vars

C6_Witness ==
    FrameDone /\ ~last.valid /\ ~passall_ /\ last.got # NULL
        /\ ReleaseCalls = 1 /\ result = NULL

\* ---- C7
C7_Step ==
    (last'.op = "frame" /\ demodState = "FRAMING" /\ last'.len # 0
        /\ last'.valid /\ last'.got # NULL) =>
        /\ result' = last'.got
        /\ last'.got \notin Elems(free') \cup held'
        /\ \A i \in 1..Len(last'.calls) : last'.calls[i] # "release"
        /\ Outstanding' = Outstanding + 1

\* C7: a completed frame the decoder reports valid is the output pointer after
\* the step, is not released and is neither on the free list nor held by
\* anyone else, and one more frame is outstanding than before the step.
C7_ValidEmitted == [][C7_Step]_vars

C7_Witness ==
    FrameDone /\ last.valid /\ last.got # NULL /\ result = last.got
        /\ ~Released

\* ---- C8
C8_Step ==
    /\ (last'.op = "frame" /\ demodState = "FRAMING" /\ last'.len # 0
            /\ ~last'.valid /\ passall_ /\ last'.got # NULL) =>
          /\ result' = last'.got
          /\ last'.got \notin Elems(free')
          /\ \A i \in 1..Len(last'.calls) : last'.calls[i] # "release"
          /\ Outstanding' = Outstanding + 1
    /\ (last'.op = "passall") =>
          (passall_' = last'.enabled /\ demodState' = demodState)
    /\ (last'.op # "passall") => passall_' = passall_

\* C8: with pass-all enabled a completed frame the decoder reports invalid is
\* the output pointer after the step and is not released; passall(enabled)
\* sets pass-all in every state of the state machine and nothing else
\* changes it.
C8_PassAll == [][C8_Step]_vars

C8_Witness ==
    FrameDone /\ ~last.valid /\ passall_ /\ last.got # NULL
        /\ result = last.got /\ ~Released

\* ---- C9
\* C9: dt is a number inside [0.095, 0.105] initially and after every call of
\* demod(), for every phase estimate (NaN included) and every loop gain.
C9_DtClamped == ~dt.nan /\ DtMin <= dt.v /\ dt.v <= DtMax

\* demod() has clamped dt at the upper edge under the locked gain.
C9_Witness == last.op = "demod" /\ dt = F(DtMax) /\ gain = GainLocked

\* ---- C10
\* The latest operation was a symbol step that entered SYNC from UNLOCKED.
EnteredSync ==
    StepFrom("UNLOCKED") /\ demodState \in {"SYNC", "FRAMING"}

\* C10 as stated: at the end of every step that enters SYNC the frame buffer
\* is empty and the framer holds no partially accumulated soft symbols.
C10_Original == EnteredSync => (buffer = ZeroBuffer /\ framer = <<>>)

C10_Step ==
    /\ (last'.op = "frame" /\ demodState = "UNLOCKED" /\ DcdLocked') =>
          /\ framer' = <<>>
          /\ \E i \in 1..Len(last'.calls) : last'.calls[i] = "framer.reset"
          /\ \E i \in 1..Len(last'.calls) : last'.calls[i] = "decoder.reset"
          /\ buffer' = buffer
    /\ (demodState # "SYNC" /\ demodState' = "SYNC") => demodState = "UNLOCKED"

\* C10 (amended): every step that enters SYNC (always from UNLOCKED) resets
\* framer and decoder, and the framer then holds no partially accumulated soft
\* symbols; the frame buffer is not cleared: it keeps what it held, the last
\* completed frame included.
C10_SyncEntryResets == [][C10_Step]_vars

\* SYNC is entered while the buffer still holds a completed frame.
C10_Witness ==
    StepFrom("UNLOCKED") /\ demodState = "SYNC" /\ framer = <<>>
        /\ buffer = [i \in 1..FrameSyms |-> 1]

\* ---- C11
\* The operation recorded in r invoked CxxErrorHandler.
HandlerCalled(r) == \E i \in 1..Len(r.calls) : r.calls[i] = "CxxErrorHandler"
\* The operation recorded in r called hdlc::acquire().
Acquires(r) == r.op = "acquire" \/ (r.op = "frame" /\ r.len # 0)

C11_Step ==
    /\ Acquires(last') =>
          /\ HandlerCalled(last') <=> (free = <<>>)
          /\ HandlerCalled(last') =>
                /\ last'.got = NULL
                /\ fatal'
                /\ free' = <<>>
                /\ last'.op = "acquire" => held' = held
                /\ last'.op = "frame" => result' = NULL
          /\ (free # <<>>) => (last'.got \in Frames /\ fatal' = fatal)
    /\ ~Acquires(last') => (~HandlerCalled(last') /\ fatal' = fatal)
    /\ (last'.op = "frame" /\ last'.len # 0 /\ ~last'.valid /\ free # <<>>) =>
          ~HandlerCalled(last')

\* C11: hdlc::acquire() invokes CxxErrorHandler exactly when the pool has no
\* free frame and then hands no frame to its caller; with a free frame it
\* returns that frame without invoking the handler; no other operation, a
\* decode failure included, invokes the handler.
C11_ErrorHandler == [][C11_Step]_vars

C11_Witness ==
    last.op = "acquire" /\ HandlerCalled(last) /\ last.got = NULL
        /\ Outstanding = PoolSize

\* ---- C12
\* C12 as stated: after every step that ends in UNLOCKED having begun in SYNC
\* or FR_SYNC, locked() is false.
C12_Original ==
    ((StepFrom("SYNC") \/ StepFrom("FR_SYNC")) /\ demodState = "UNLOCKED")
        => ~locked_

\* ---- C13
C13_Step ==
    (last'.op = "frame" /\ demodState = "FR_SYNC" /\ DcdLocked') =>
        IF last'.match
        THEN demodState' = "FRAMING" /\ sync_count' = sync_count
                /\ locked_' = locked_
        ELSE /\ sync_count' = sync_count + 1
             /\ IF sync_count < SyncLossLimit
                THEN demodState' = "FR_SYNC" /\ locked_' = locked_
                ELSE demodState' = "UNLOCKED" /\ ~locked_'

\* C13: in FR_SYNC with the carrier locked, an unmatched step leaves the state
\* FR_SYNC while fewer than 8 unmatched steps came before it, and the unmatched
\* step after 8 of them ends in UNLOCKED with the locked flag cleared; a step
\* on which sync4 matches ends in FRAMING instead.
C13_Timeout == [][C13_Step]_vars

\* sync4 matches on the step after 8 unmatched ones.
C13_Witness ==
    StepFrom("FR_SYNC") /\ last.match /\ demodState = "FRAMING"
        /\ sync_count = SyncLossLimit

\* ---- C14
C14_Step ==
    /\ (last'.op = "frame" /\ demodState = "FRAMING") =>
          /\ (last'.len # 0) <=> (Len(framer) = FrameSyms - 1)
          /\ IF last'.len # 0
             THEN demodState' = "FR_SYNC" /\ sync_count' = 0
             ELSE demodState' = "FRAMING" /\ sync_count' = sync_count
    /\ (demodState # "FR_SYNC" /\ demodState' = "FR_SYNC") =>
          (demodState = "FRAMING" /\ last'.len # 0 /\ sync_count' = 0)

\* C14: a FRAMING step on which the framer completes a frame ends in FR_SYNC
\* with the sync-loss counter 0, whatever the decoder reports and whatever
\* pass-all is; a FRAMING step on which the framer returns 0 ends in FRAMING;
\* FR_SYNC is entered in no other way.
C14_FrameComplete == [][C14_Step]_vars

C14_Witness ==
    FrameDone /\ last.valid /\ passall_ /\ demodState = "FR_SYNC"
        /\ sync_count = 0

\* ---- C15
\* Symbol steps with the carrier unlocked that are needed to reach UNLOCKED
\* with locked() false: the rest of the frame in flight, and two more.
Rank ==
    CASE demodState = "UNLOCKED" -> IF locked_ THEN 1 ELSE 0
      [] demodState \in {"SYNC", "FR_SYNC"} -> IF locked_ THEN 2 ELSE 1
      [] demodState = "FRAMING" -> (FrameSyms - Len(framer)) + 2

C15_Step ==
    /\ (last'.op = "frame" /\ ~DcdLocked') =>
          Rank' = IF Rank = 0 THEN 0 ELSE Rank - 1
    /\ (last'.op # "frame") => Rank' <= Rank
    /\ (demodState = "UNLOCKED" /\ demodState' # "UNLOCKED") =>
          /\ \E i \in 1..Len(last'.calls) : last'.calls[i] = "framer.reset"
          /\ \E i \in 1..Len(last'.calls) : last'.calls[i] = "decoder.reset"
    /\ (demodState # "FRAMING" /\ demodState' = "FRAMING") =>
          framer' = <<>>

\* C15: every symbol step with the carrier unlocked brings the state machine
\* one step closer to UNLOCKED with locked() false (Rank falls by one until it
\* is 0, and is never more than the rest of the frame in flight plus 2), no
\* other operation takes it further away, Rank 0 is kept while the carrier
\* stays unlocked, and the step that leaves UNLOCKED again resets framer and
\* decoder.
C15_CarrierLoss ==
    /\ [](Rank \in 0..(FrameSyms + 2))
    /\ [][C15_Step]_vars

\* After a completed frame and a carrier drop the state machine rests in
\* UNLOCKED with locked() false.
C15_Witness ==
    StepFrom("UNLOCKED") /\ demodState = "UNLOCKED" /\ ~locked_ /\ ~DcdLocked
        /\ buffer # ZeroBuffer /\ last.calls = <<"dcd">>

\* ---- C16
C16_Step ==
    (last'.op = "frame" /\ demodState = "UNLOCKED" /\ DcdLocked') =>
        /\ last'.calls = <<"dcd", "framer.reset", "decoder.reset", "sync1">>
        /\ demodState' = IF last'.match THEN "FRAMING" ELSE "SYNC"
        /\ demodState' # "UNLOCKED"

\* C16: a step that begins in UNLOCKED with the carrier locked resets framer
\* and decoder and then evaluates sync1 on the same symbol; it ends in FRAMING
\* if sync1 matches and in SYNC otherwise.
C16_FallThrough == [][C16_Step]_vars

C16_Witness ==
    StepFrom("UNLOCKED") /\ demodState = "FRAMING" /\ last.match
        /\ last.calls = <<"dcd", "framer.reset", "decoder.reset", "sync1">>

\* ---- C19
C19_Step ==
    /\ (last'.op # "frame") => demodState' = demodState
    /\ (last'.op = "frame" /\ demodState = "UNLOCKED") =>
          /\ demodState' \in {"UNLOCKED", "SYNC", "FRAMING"}
          /\ (demodState' # "UNLOCKED") <=> DcdLocked'
    /\ (last'.op = "frame" /\ demodState = "SYNC") =>
          /\ demodState' \in {"SYNC", "UNLOCKED", "FRAMING"}
          /\ (demodState' = "UNLOCKED") <=> ~DcdLocked'
          /\ (demodState' = "FRAMING") <=> (DcdLocked' /\ last'.match)
    /\ (last'.op = "frame" /\ demodState = "FR_SYNC") =>
          /\ demodState' \in {"FR_SYNC", "UNLOCKED", "FRAMING"}
          /\ (demodState' = "FRAMING") <=> (DcdLocked' /\ last'.match)
          /\ (demodState' = "UNLOCKED") <=>
                (~DcdLocked' \/ (~last'.match /\ sync_count = SyncLossLimit))
    /\ (last'.op = "frame" /\ demodState = "FRAMING") =>
          /\ demodState' \in {"FRAMING", "FR_SYNC"}
          /\ (demodState' = "FR_SYNC") <=> (last'.len # 0)

\* C19: a symbol step changes the state only UNLOCKED -> SYNC or FRAMING
\* (carrier locked), SYNC -> UNLOCKED (carrier drop) or FRAMING (sync1),
\* FR_SYNC -> UNLOCKED (carrier drop or timeout) or FRAMING (sync4), and
\* FRAMING -> FR_SYNC (frame complete); FRAMING does not consult the carrier;
\* no other operation changes the state.
C19_Transitions == [][C19_Step]_vars

\* A carrier drop in FRAMING leaves the state FRAMING.
C19_Witness ==
    StepFrom("FRAMING") /\ ~DcdLocked /\ demodState = "FRAMING"
        /\ last.len = 0

\* ---- C20
C20_Step ==
    (last'.op = "frame"
        /\ (demodState \in {"UNLOCKED", "SYNC", "FR_SYNC"} \/ last'.len = 0)) =>
        /\ result' = result
        /\ free' = free /\ held' = held /\ fatal' = fatal
        /\ buffer' = buffer
        /\ last'.got = NULL
        /\ \A i \in 1..Len(last'.calls) :
              last'.calls[i] \notin {"decoder", "release", "CxxErrorHandler"}

\* C20: a step that begins in UNLOCKED, SYNC or FR_SYNC, and a FRAMING step on
\* which the framer returns 0, does not invoke the decoder, acquires and
\* releases no frame, and leaves the caller's output pointer as it was.
C20_NoSideEffect == [][C20_Step]_vars

\* A step leaves a non-null output pointer in place.
C20_Witness == StepFrom("SYNC") /\ result # NULL

\* ---- C17
\* The operation recorded in r logged the telemetry line of the FR_SYNC case.
LossInfo(r) == \E i \in 1..Len(r.calls) : r.calls[i] = "INFO"
\* The operation recorded in r emitted telemetry.
Telemetry(r) == LossInfo(r) \/ r.periodic

\* C17 as stated: every step that takes the state machine from FR_SYNC back to
\* UNLOCKED emits telemetry.
C17_Original ==
    (StepFrom("FR_SYNC") /\ demodState = "UNLOCKED") => Telemetry(last)

C17_Step ==
    /\ (last'.op = "frame") =>
          /\ LossInfo(last') <=> (demodState = "FR_SYNC" /\ ~DcdLocked')
          /\ last'.periodic <=> (count = 0)
          /\ count' = (count + 1) % InfoPeriod
    /\ (last'.op # "frame") => (~Telemetry(last') /\ count' = count)

\* C17 (amended): frame() logs telemetry in the step that takes FR_SYNC to
\* UNLOCKED by carrier drop, and in no other branch: the step that takes
\* FR_SYNC to UNLOCKED by the sync-loss timeout logs nothing of its own. In
\* addition every InfoPeriod-th call of frame(), the first included, makes the
\* periodic report.
C17_Telemetry == [][C17_Step]_vars

\* The sync-loss timeout returns to UNLOCKED without any telemetry.
C17_Witness ==
    Unmatched /\ demodState = "UNLOCKED" /\ ~Telemetry(last)

\* ---- C18
\* The frame the callback has unlinked and not yet handed on.
CallbackHand ==
    IF pc["callback"] = "exit" THEN {reg["callback"].frame} \ {NULL} ELSE {}
\* The frame the task is releasing and has not yet put on the free list.
TaskHand ==
    IF pc["task"] \in {"enter", "link", "write"} THEN {reg["task"].frame}
    ELSE {}

====
